---- MODULE Spec2Model ----
(***************************************************************************)
(* CuraLink backend (src/main.py, src/schemas.py): the request handlers    *)
(* over the document store and over the PubMed, ClinicalTrials.gov and     *)
(* ORCID upstreams, plus the mock publications endpoint.                   *)
(*                                                                         *)
(* One request is handled at a time.  A handler that blocks on an outbound *)
(* HTTP call is split at the call: the step that issues it and the step    *)
(* that consumes the upstream's outcome.  Text is a sequence of one-       *)
(* character strings wherever the code looks at characters; optional       *)
(* values are None (<<>>) or Some(v) (<<v>>).                              *)
(***************************************************************************)
EXTENDS Integers, Sequences, FiniteSets, TLC

VARIABLES
    db,       \* document store: collection name -> sequence of documents
    next_id,  \* next identifier the store hands out
    pc,       \* "ready", or where the request in flight is blocked
    req,      \* the request in flight, or the last one handled
    calls,    \* outbound calls of that request, in issue order, with outcomes
    id_list,  \* pubmed_search: the phase-1 ID list kept for phase 2
    resp      \* the response of the last finished request

vars == <<db, next_id, pc, req, calls, id_list, resp>>

----------------------------------------------------------------------------
(* Bounds of the model *)

MaxDocs == 2        \* documents inserted over a run
MaxIds == 2         \* length of a PubMed phase-1 ID list
MaxPubdateLen == 5  \* characters of a pubdate string
MaxLocs == 2        \* length of a trial's city list and country list
MaxSeedLen == 2     \* characters of a mock-publications identifier

----------------------------------------------------------------------------
(* Generic helpers *)

None == <<>>
Some(v) == <<v>>

Min(a, b) == IF a <= b THEN a ELSE b
Max(a, b) == IF a >= b THEN a ELSE b

Take(s, n) == SubSeq(s, 1, Min(n, Len(s)))

SeqsUpTo(S, n) == UNION {[1..k -> S] : k \in 0..n}

\* the truth value of an optional text: None and "" are false
IsSet(x) == x # None /\ x # Some("")

----------------------------------------------------------------------------
(* Document store (database.py: create_document, get_documents) *)

Collections == {"patient", "researcher", "forumquestion", "forumreply", "favorite"}

AuthorRoles == {"patient", "researcher"}

TotalDocs == Len(db["patient"]) + Len(db["researcher"]) + Len(db["forumquestion"])
             + Len(db["forumreply"]) + Len(db["favorite"])

\* insert(collection, record) -> generated id: one document appended to that
\* collection under a fresh identifier, which is returned as a string.
StrOfId(oid) == oid.oid

create_document(collection, payload) ==
    /\ db' = [db EXCEPT ![collection] =
                 Append(@, [_id |-> [oid |-> next_id], data |-> payload])]
    /\ next_id' = next_id + 1

new_id == StrOfId([oid |-> next_id])

\* A filter maps field names to conditions: the field equals a value, or the
\* field (a set of values) holds one of the values listed.
Eq(v) == [op |-> "eq", val |-> v]
In(vs) == [op |-> "in", vals |-> vs]

Matches(doc, flt) ==
    \A k \in DOMAIN flt :
        /\ k \in DOMAIN doc.data
        /\ IF flt[k].op = "eq" THEN doc.data[k] = flt[k].val
           ELSE doc.data[k] \cap flt[k].vals # {}

\* find(collection, filter, limit): the matching documents, in store order,
\* at most limit of them
get_documents(collection, flt, limit) ==
    LET Test(d) == Matches(d, flt)
    IN Take(SelectSeq(db[collection], Test), limit)

\* it["_id"] = str(it.get("_id")) on every returned document
WithStrId(items) == [i \in 1..Len(items) |-> [items[i] EXCEPT !._id = StrOfId(@)]]

Ready == pc = "ready"

\* a handler that finishes in one step
Finish(request, response) ==
    /\ pc' = "ready"
    /\ req' = request
    /\ resp' = response
    /\ calls' = <<>>
    /\ id_list' = <<>>

NoStore == UNCHANGED <<db, next_id>>

----------------------------------------------------------------------------
(* Onboarding, forum and favorites handlers *)

create_patient_profile(payload) ==
    /\ Ready
    /\ TotalDocs < MaxDocs
    /\ create_document("patient", payload)
    /\ Finish([handler |-> "create_patient_profile", payload |-> payload],
              [status |-> 200, id |-> new_id])

\* the profile written to the wrong collection
create_researcher_profile_patient(payload) ==
    /\ Ready
    /\ TotalDocs < MaxDocs
    /\ create_document("patient", payload)
    /\ Finish([handler |-> "create_researcher_profile", payload |-> payload],
              [status |-> 200, id |-> new_id])

create_researcher_profile(payload) ==
    /\ Ready
    /\ TotalDocs < MaxDocs
    /\ create_document("researcher", payload)
    /\ Finish([handler |-> "create_researcher_profile", payload |-> payload],
              [status |-> 200, id |-> new_id])

\* the gate left out: every role may ask
QuestionAllowed_open(payload) == payload.author_role \in AuthorRoles

QuestionAllowed(payload) == payload.author_role = "patient"

create_forum_question(payload) ==
    /\ Ready
    /\ IF ~QuestionAllowed(payload)
       THEN /\ NoStore
            /\ Finish([handler |-> "create_forum_question", payload |-> payload],
                      [status |-> 403, detail |-> "Only patients can create questions"])
       ELSE /\ TotalDocs < MaxDocs
            /\ create_document("forumquestion", payload)
            /\ Finish([handler |-> "create_forum_question", payload |-> payload],
                      [status |-> 200, id |-> new_id])

list_forum_questions(tag, category, limit) ==
    /\ Ready
    /\ NoStore
    /\ LET flt == [k \in (IF IsSet(tag) THEN {"tags"} ELSE {})
                           \cup (IF IsSet(category) THEN {"category"} ELSE {}) |->
                      IF k = "tags" THEN In({tag[1]}) ELSE Eq(category)]
           items == get_documents("forumquestion", flt, limit)
       IN Finish([handler |-> "list_forum_questions", tag |-> tag,
                  category |-> category, limit |-> limit],
                 [status |-> 200, items |-> WithStrId(items)])

ReplyAllowed(payload) == payload.author_role = "researcher"

create_forum_reply(payload) ==
    /\ Ready
    /\ IF ~ReplyAllowed(payload)
       THEN /\ NoStore
            /\ Finish([handler |-> "create_forum_reply", payload |-> payload],
                      [status |-> 403, detail |-> "Only researchers can reply"])
       ELSE /\ TotalDocs < MaxDocs
            /\ create_document("forumreply", payload)
            /\ Finish([handler |-> "create_forum_reply", payload |-> payload],
                      [status |-> 200, id |-> new_id])

add_favorite(payload) ==
    /\ Ready
    /\ TotalDocs < MaxDocs
    /\ create_document("favorite", payload)
    /\ Finish([handler |-> "add_favorite", payload |-> payload],
              [status |-> 200, id |-> new_id])

list_favorites(user_id, user_role, limit) ==
    /\ Ready
    /\ NoStore
    /\ LET flt == [k \in (IF IsSet(user_id) THEN {"user_id"} ELSE {})
                           \cup (IF IsSet(user_role) THEN {"user_role"} ELSE {}) |->
                      IF k = "user_id" THEN Eq(user_id) ELSE Eq(user_role[1])]
           items == get_documents("favorite", flt, limit)
       IN Finish([handler |-> "list_favorites", user_id |-> user_id,
                  user_role |-> user_role, limit |-> limit],
                 [status |-> 200, items |-> WithStrId(items)])

\* request payloads, as the schemas admit them
PatientPayloads == {[name |-> "Ann", email |-> "ann@example.org"]}
ResearcherPayloads == {[name |-> "Raj", email |-> "raj@example.org"]}
QuestionPayloads ==
    [author_role : AuthorRoles, category : {None, Some("oncology")},
     title : {"Q"}, tags : {{"trial"}}]
ReplyPayloads == [question_id : {"1"}, author_role : AuthorRoles, body : {"R"}]
FavoritePayloads ==
    [user_id : {Some("u1"), Some("u2")}, user_role : AuthorRoles,
     item_type : {"publication"}]

StoreNext ==
    \/ \E p \in PatientPayloads : create_patient_profile(p)
    \/ \E p \in ResearcherPayloads : create_researcher_profile(p)
    \/ \E p \in QuestionPayloads : create_forum_question(p)
    \/ \E t \in {None, Some("trial")}, c \in {None, Some("oncology")}, l \in {1, 50} :
          list_forum_questions(t, c, l)
    \/ \E p \in ReplyPayloads : create_forum_reply(p)
    \/ \E p \in FavoritePayloads : add_favorite(p)
    \/ \E u \in {None, Some("u1")}, r \in {None} \cup {Some(x) : x \in AuthorRoles},
          l \in {1, 100} : list_favorites(u, r, l)

----------------------------------------------------------------------------
(* JSON values of upstream bodies.  A JSON null and a missing key both read *)
(* as Python None; an object is a function from its keys to values, a      *)
(* string a sequence of characters, a list a sequence of texts.            *)

JNull == [t |-> "null"]
JStr(s) == [t |-> "str", s |-> s]
JNum(n) == [t |-> "num", n |-> n]
JObj(f) == [t |-> "obj", o |-> f]
JList(l) == [t |-> "list", l |-> l]

\* dict.get(key, default)
Get(obj, key, default) == IF key \in DOMAIN obj THEN obj[key] ELSE default

\* Python truth value: None, {}, "", [] and 0 are false
Truthy(x) ==
    CASE x.t = "null" -> FALSE
      [] x.t = "obj" -> DOMAIN x.o # {}
      [] x.t = "num" -> x.n # 0
      [] x.t = "str" -> Len(x.s) # 0
      [] x.t = "list" -> Len(x.l) # 0

----------------------------------------------------------------------------
(* Outbound calls (requests.get, Response.raise_for_status) *)

Pending == [kind |-> "pending"]

\* what an outbound call can come back with: requests.get raises, or returns
\* a response whose body is a JSON document.  300 is a final response that is
\* not a redirect to follow.
NetworkErrors == {"ConnectionError", "Timeout"}
PassedStatuses == {200, 300}
ErrorStatuses == {404, 503}

Outcomes(bodies) ==
    {[kind |-> "error", exc |-> e] : e \in NetworkErrors}
    \cup {[kind |-> "http", status |-> s, body |-> JObj([error |-> JStr(<<"e">>)])] : s \in ErrorStatuses}
    \cup {[kind |-> "http", status |-> s, body |-> b] : s \in PassedStatuses, b \in bodies}

\* only a server error raises
RaisesForStatus_5xx(status) == 500 <= status /\ status < 600

\* Response.raise_for_status raises HTTPError for a 4xx or 5xx status
RaisesForStatus(status) == 400 <= status /\ status < 600

\* the call ends in a requests.RequestException: requests.get raised
\* (connection failure, timeout) or raise_for_status did
RequestException(outcome) ==
    \/ outcome.kind = "error"
    \/ outcome.kind = "http" /\ RaisesForStatus(outcome.status)

ExceptionText(outcome) ==
    IF outcome.kind = "error" THEN outcome.exc ELSE "HTTPError"

Call(upstream, endpoint, params) ==
    [upstream |-> upstream, endpoint |-> endpoint, params |-> params, outcome |-> Pending]

\* the call in flight comes back with outcome
Returned(outcome) == [calls EXCEPT ![Len(calls)].outcome = outcome]

\* except requests.RequestException as e: raise HTTPException(502, "<name> error: ...")
UpstreamError(name, outcome) ==
    [status |-> 502, detail |-> [upstream |-> name, text |-> ExceptionText(outcome)]]

----------------------------------------------------------------------------
(* PubMed: pubmed_search *)

MinQueryLen == 2

PubmedIds == {"11", "22"}

\* Python str.isdigit: every character is a digit, and there is at least one.
\* "sup2" stands for U+00B2, a digit that int() does not accept.
DecimalChars == {"0", "1", "2", "3", "4", "5", "6", "7", "8", "9"}
DigitChars == DecimalChars \cup {"sup2"}

IsDigit(s) == Len(s) > 0 /\ \A i \in 1..Len(s) : s[i] \in DigitChars

DigitVal(c) ==
    CASE c = "0" -> 0 [] c = "1" -> 1 [] c = "2" -> 2 [] c = "3" -> 3 [] c = "4" -> 4
      [] c = "5" -> 5 [] c = "6" -> 6 [] c = "7" -> 7 [] c = "8" -> 8 [] c = "9" -> 9

RECURSIVE IntOf(_)
IntOf(s) == IF s = <<>> THEN 0
            ELSE 10 * IntOf(SubSeq(s, 1, Len(s) - 1)) + DigitVal(s[Len(s)])

\* year = int(pubdate[:4]) if pubdate[:4].isdigit() else None, inside
\* try/except Exception: slicing a non-string or int() of a non-decimal digit
\* raises and leaves year None
ParseYear(pubdate) ==
    IF pubdate.t # "str" THEN None
    ELSE LET prefix == Take(pubdate.s, 4)
         IN IF ~IsDigit(prefix) THEN None
            ELSE IF \A i \in 1..Len(prefix) : prefix[i] \in DecimalChars
                 THEN Some(IntOf(prefix))
                 ELSE None

PubmedUrl(pid) == "https://pubmed.ncbi.nlm.nih.gov/" \o pid \o "/"

\* only a missing or null summary skipped
SkipSummary_none(r) == r.t = "null"

\* if not r: continue
SkipSummary(r) == ~Truthy(r)

\* for pid in id_list: ... items.append({...})
RECURSIVE PubmedItems(_, _, _)
PubmedItems(ids, summ, items) ==
    IF ids = <<>> THEN items
    ELSE LET pid == Head(ids)
             r == Get(summ, pid, JNull)
         IN IF SkipSummary(r) THEN PubmedItems(Tail(ids), summ, items)
            ELSE PubmedItems(Tail(ids), summ,
                     Append(items,
                            [id |-> pid,
                             title |-> Get(r.o, "title", JNull),
                             journal |-> Get(r.o, "fulljournalname", JNull),
                             year |-> ParseYear(Get(r.o, "pubdate", JStr(<<>>))),
                             url |-> PubmedUrl(pid)]))

\* data.get("esearchresult", {}).get("idlist", [])
IdListOf(data) == Get(Get(data.o, "esearchresult", JObj(<<>>)).o, "idlist", JList(<<>>)).l

\* esummary.json().get("result", {})
ResultOf(data) == Get(data.o, "result", JObj(<<>>)).o

pubmed_search(query, max_results) ==
    /\ Ready
    /\ NoStore
    /\ req' = [handler |-> "pubmed_search", query |-> query, max_results |-> max_results]
    /\ id_list' = <<>>
    /\ IF Len(query) < MinQueryLen
       THEN /\ pc' = "ready"
            /\ calls' = <<>>
            /\ resp' = [status |-> 422, detail |-> "query"]
       ELSE /\ pc' = "esearch"
            /\ calls' = <<Call("PubMed", "esearch.fcgi",
                               [term |-> query, retmax |-> max_results])>>
            /\ resp' = [status |-> 0]

\* the short-circuit left out
NoIds_never(ids) == FALSE

\* an empty ID list ends the request before phase 2
NoIds(ids) == Len(ids) = 0

esearch_returns(outcome) ==
    /\ pc = "esearch"
    /\ NoStore
    /\ UNCHANGED req
    /\ IF RequestException(outcome)
       THEN /\ pc' = "ready"
            /\ calls' = Returned(outcome)
            /\ id_list' = <<>>
            /\ resp' = UpstreamError("PubMed", outcome)
       ELSE LET ids == IdListOf(outcome.body)
            IN IF NoIds(ids)
               THEN /\ pc' = "ready"
                    /\ calls' = Returned(outcome)
                    /\ id_list' = ids
                    /\ resp' = [status |-> 200, items |-> <<>>]
               ELSE /\ pc' = "esummary"
                    /\ calls' = Append(Returned(outcome),
                                       Call("PubMed", "esummary.fcgi", [id |-> ids]))
                    /\ id_list' = ids
                    /\ resp' = [status |-> 0]

esummary_returns(outcome) ==
    /\ pc = "esummary"
    /\ NoStore
    /\ UNCHANGED <<req, id_list>>
    /\ pc' = "ready"
    /\ calls' = Returned(outcome)
    /\ IF RequestException(outcome)
       THEN resp' = UpstreamError("PubMed", outcome)
       ELSE resp' = [status |-> 200,
                     items |-> PubmedItems(id_list, ResultOf(outcome.body), <<>>)]

\* upstream bodies of phase 1
EsearchBodies ==
    {JObj(<<>>), JObj([esearchresult |-> JObj(<<>>)])}
    \cup {JObj([esearchresult |-> JObj([idlist |-> JList(ids)])]) :
             ids \in SeqsUpTo(PubmedIds, MaxIds)}

\* pubdate values: every string of up to MaxPubdateLen characters over a small
\* alphabet, and the shapes the try/except is there for
PubdateChars == {"2", "0", "N"}
Pubdates ==
    {JStr(s) : s \in SeqsUpTo(PubdateChars, MaxPubdateLen)}
    \cup {JStr(<<"2", "0", "2", "2", " ", "J", "a", "n">>),
          JStr(<<"N", "o", "D", "a", "t", "e">>),
          JStr(<<"sup2", "sup2", "sup2", "sup2">>),
          JNull, JNum(2022)}

Summary(p) == JObj([uid |-> JStr(<<"u">>), title |-> JStr(<<"T">>), pubdate |-> p])

\* summary maps that vary which IDs are keys and what they map to: null, an
\* empty object or a summary
KeyedEntries == {JNull, JObj(<<>>), Summary(JStr(<<"2", "0", "2", "2">>))}
KeyedMaps == UNION {[K -> KeyedEntries] : K \in SUBSET PubmedIds}

\* summary maps that vary the pubdate of one ID
DatedMaps == {[k \in {"11"} |-> Summary(p)] : p \in Pubdates}
             \cup {[k \in {"11"} |-> JObj([uid |-> JStr(<<"u">>)])]}

EsummaryBodies ==
    {JObj(<<>>)} \cup {JObj([result |-> JObj(m)]) : m \in KeyedMaps \cup DatedMaps}

PubmedNext ==
    \/ \E q \in {"c", "cancer"}, m \in {20} : pubmed_search(q, m)
    \/ \E o \in Outcomes(EsearchBodies) : esearch_returns(o)
    \/ \E o \in Outcomes(EsummaryBodies) : esummary_returns(o)

----------------------------------------------------------------------------
(* ClinicalTrials.gov: clinical_trials_search *)

\* A study is a function from the field names it carries to lists of texts.

\* lst[0]: the first element; IndexError on an empty list
IndexError(lst) == Len(lst) = 0
First(lst) == lst[1]

\* the three fields read as s.get(field, [default])[0]
UnwrappedFields == {"NCTId", "BriefTitle", "OverallStatus"}

\* s.get(field, [default])[0], with default None or a text
Unwrap(s, field, default) == IF field \in DOMAIN s THEN Some(First(s[field])) ELSE default

\* the study makes the handler raise IndexError
StudyRaises(s) == \E f \in UnwrappedFields : f \in DOMAIN s /\ IndexError(s[f])

\* the city list left unpadded
PadCities_unpadded(cities, countries) == [i \in 1..Len(cities) |-> Some(cities[i])]

\* loc_cities + [None] * max(len(loc_countries) - len(loc_cities), 0)
PadCities(cities, countries) ==
    [i \in 1..(Len(cities) + Max(Len(countries) - Len(cities), 0)) |->
        IF i <= Len(cities) THEN Some(cities[i]) ELSE None]

\* filter(None, parts): the parts that are neither None nor ""
FilterNone(parts) == SelectSeq(parts, IsSet)

\* ", ".join(parts)
RECURSIVE Join(_)
Join(parts) ==
    IF parts = <<>> THEN ""
    ELSE IF Len(parts) = 1 THEN parts[1][1]
    ELSE parts[1][1] \o ", " \o Join(Tail(parts))

\* [", ".join(filter(None, [city, country])) for city, country in zip(...)]
\*     or loc_countries
Locations(cities, countries) ==
    LET padded == PadCities(cities, countries)
        joined == [i \in 1..Min(Len(padded), Len(countries)) |->
                      Join(FilterNone(<<padded[i], Some(countries[i])>>))]
    IN IF Len(joined) = 0 THEN countries ELSE joined

\* f"https://clinicaltrials.gov/study/{nct}" if nct else None
TrialUrl(nct) ==
    IF ~IsSet(nct) THEN None
    ELSE Some("https://clinicaltrials.gov/study/" \o nct[1])

TrialItem(s) ==
    LET nct == Unwrap(s, "NCTId", None)
    IN [nct_id |-> nct,
        title |-> Unwrap(s, "BriefTitle", Some("")),
        status |-> Unwrap(s, "OverallStatus", None),
        conditions |-> Get(s, "Condition", <<>>),
        locations |-> Locations(Get(s, "LocationCity", <<>>),
                                Get(s, "LocationCountry", <<>>)),
        url |-> TrialUrl(nct)]

\* j.get("StudyFieldsResponse", {}).get("StudyFields", [])
StudiesOf(j) ==
    Get(Get(j.o, "StudyFieldsResponse", JObj(<<>>)).o, "StudyFields", JList(<<>>)).l

clinical_trials_search(expr, min_rank, max_rank) ==
    /\ Ready
    /\ NoStore
    /\ req' = [handler |-> "clinical_trials_search", expr |-> expr,
               min_rank |-> min_rank, max_rank |-> max_rank]
    /\ id_list' = <<>>
    /\ pc' = "study_fields"
    /\ calls' = <<Call("ClinicalTrials.gov", "study_fields",
                       [expr |-> expr, min_rnk |-> min_rank, max_rnk |-> max_rank])>>
    /\ resp' = [status |-> 0]

\* an exception that no except clause of the handler catches leaves it as a
\* server error
ServerError(exc) == [status |-> 500, detail |-> exc]

study_fields_returns(outcome) ==
    /\ pc = "study_fields"
    /\ NoStore
    /\ UNCHANGED <<req, id_list>>
    /\ pc' = "ready"
    /\ calls' = Returned(outcome)
    /\ IF RequestException(outcome)
       THEN resp' = UpstreamError("ClinicalTrials.gov", outcome)
       ELSE LET studies == StudiesOf(outcome.body)
            IN IF \E i \in 1..Len(studies) : StudyRaises(studies[i])
               THEN resp' = ServerError("IndexError")
               ELSE resp' = [status |-> 200,
                             items |-> [i \in 1..Len(studies) |-> TrialItem(studies[i])]]

\* a study from its fields; a field that is None is not a key of the study
StudyFieldNames ==
    {"NCTId", "BriefTitle", "OverallStatus", "Condition", "LocationCity", "LocationCountry"}
Study(fields) == [k \in {f \in StudyFieldNames : fields[f] # None} |-> fields[k][1]]

\* studies that vary the unwrapped fields: missing, empty, one or two elements
FieldStudies ==
    {Study([NCTId |-> n, BriefTitle |-> b, OverallStatus |-> o,
            Condition |-> Some(<<"Cancer">>), LocationCity |-> Some(<<"Boston">>),
            LocationCountry |-> Some(<<"US">>)]) :
        n \in {None, Some(<<>>), Some(<<"NCT01">>), Some(<<"NCT01", "NCT02">>)},
        b \in {None, Some(<<>>), Some(<<"T">>)},
        o \in {None, Some(<<>>), Some(<<"Recruiting">>)}}

\* studies that vary the city and country lists
Cities == {"", "Boston"}
Countries == {"", "US", "UK"}
LocationStudies ==
    {Study([NCTId |-> Some(<<"NCT01">>), BriefTitle |-> Some(<<"T">>),
            OverallStatus |-> None, Condition |-> None,
            LocationCity |-> c, LocationCountry |-> k]) :
        c \in {None} \cup {Some(l) : l \in SeqsUpTo(Cities, MaxLocs)},
        k \in {None} \cup {Some(l) : l \in SeqsUpTo(Countries, MaxLocs)}}

\* studies that come in pairs
PairedStudies ==
    {Study([NCTId |-> n, BriefTitle |-> Some(<<"T">>), OverallStatus |-> None,
            Condition |-> None, LocationCity |-> None,
            LocationCountry |-> Some(<<"UK">>)]) :
        n \in {Some(<<>>), Some(<<"NCT01">>), Some(<<"NCT02">>)}}

StudyLists ==
    {<<>>} \cup {<<s>> : s \in FieldStudies \cup LocationStudies}
    \cup {<<a, b>> : a \in PairedStudies, b \in PairedStudies}

StudyFieldsBodies ==
    {JObj(<<>>)}
    \cup {JObj([StudyFieldsResponse |-> JObj([StudyFields |-> JList(l)])]) : l \in StudyLists}

TrialsNext ==
    \/ \E e \in {"cancer"}, lo \in {1}, hi \in {20} : clinical_trials_search(e, lo, hi)
    \/ \E o \in Outcomes(StudyFieldsBodies) : study_fields_returns(o)

----------------------------------------------------------------------------
(* ORCID: orcid_person *)

\* Query(..., pattern=r"\d{4}-\d{4}-\d{4}-\d{3}[\dX]"): one character class
\* per position of a match
OrcidPattern ==
    <<"d", "d", "d", "d", "-", "d", "d", "d", "d", "-",
      "d", "d", "d", "d", "-", "d", "d", "d", "dX">>

InClass(class, c) ==
    CASE class = "d" -> c \in DecimalChars
      [] class = "-" -> c = "-"
      [] class = "dX" -> c \in DecimalChars \cup {"X"}

\* the pattern matches the characters of s that start at position i
MatchesAt(s, i) ==
    /\ i + Len(OrcidPattern) - 1 <= Len(s)
    /\ \A j \in 1..Len(OrcidPattern) : InClass(OrcidPattern[j], s[i + j - 1])

\* The pattern carries no anchors.  The validation library applies it as a
\* search (a match anywhere in the string) or, in its older release, as a
\* match at the start of the string; neither looks at what follows the match.
RegexEngines == {"search", "match"}

PatternAccepts(engine, s) ==
    IF engine = "search"
    THEN \E i \in 1..Len(s) : MatchesAt(s, i)
    ELSE MatchesAt(s, 1)

orcid_person(engine, orcid) ==
    /\ Ready
    /\ NoStore
    /\ req' = [handler |-> "orcid_person", orcid |-> orcid]
    /\ id_list' = <<>>
    /\ IF ~PatternAccepts(engine, orcid)
       THEN /\ pc' = "ready"
            /\ calls' = <<>>
            /\ resp' = [status |-> 422, detail |-> "orcid"]
       ELSE /\ pc' = "person"
            /\ calls' = <<Call("ORCID", "person", [orcid |-> orcid])>>
            /\ resp' = [status |-> 0]

\* x.get(...) on a value that is not an object raises AttributeError
NotObj(x) == x.t # "obj"

PersonRaises(data) ==
    LET name == Get(data.o, "name", JObj(<<>>))
    IN \/ NotObj(name)
       \/ NotObj(Get(name.o, "given-names", JObj(<<>>)))
       \/ NotObj(Get(name.o, "family-name", JObj(<<>>)))
       \/ NotObj(Get(data.o, "other-names", JObj(<<>>)))
       \/ NotObj(Get(data.o, "keywords", JObj(<<>>)))

\* [n.get("content") for n in lst]
Contents(lst) == [i \in 1..Len(lst) |-> Get(lst[i], "content", JNull)]

PersonResult(orcid, data) ==
    LET name == Get(data.o, "name", JObj(<<>>)).o
    IN [status |-> 200,
        orcid |-> orcid,
        given_names |-> Get(Get(name, "given-names", JObj(<<>>)).o, "value", JNull),
        family_name |-> Get(Get(name, "family-name", JObj(<<>>)).o, "value", JNull),
        other_names |-> Contents(Get(Get(data.o, "other-names", JObj(<<>>)).o,
                                     "other-name", JList(<<>>)).l),
        keywords |-> Contents(Get(Get(data.o, "keywords", JObj(<<>>)).o,
                                  "keyword", JList(<<>>)).l)]

person_returns(outcome) ==
    /\ pc = "person"
    /\ NoStore
    /\ UNCHANGED <<req, id_list>>
    /\ pc' = "ready"
    /\ calls' = Returned(outcome)
    /\ IF RequestException(outcome)
       THEN resp' = UpstreamError("ORCID", outcome)
       ELSE IF PersonRaises(outcome.body)
            THEN resp' = ServerError("AttributeError")
            ELSE resp' = PersonResult(req.orcid, outcome.body)

\* identifiers: a well-formed one, and every string one character away from
\* it (a character replaced, removed or inserted anywhere)
GoodOrcid ==
    <<"0", "0", "0", "0", "-", "0", "0", "0", "2", "-",
      "1", "8", "2", "5", "-", "0", "0", "9", "7">>
OrcidChars == {"0", "9", "X", "x", "a", "-"}

Replaced(s, i, c) == [s EXCEPT ![i] = c]
Removed(s, i) == SubSeq(s, 1, i - 1) \o SubSeq(s, i + 1, Len(s))
Inserted(s, i, c) == SubSeq(s, 1, i) \o <<c>> \o SubSeq(s, i + 1, Len(s))

OrcidInputs ==
    {GoodOrcid, <<>>}
    \cup {Replaced(GoodOrcid, i, c) : i \in 1..Len(GoodOrcid), c \in OrcidChars}
    \cup {Removed(GoodOrcid, i) : i \in 1..Len(GoodOrcid)}
    \cup {Inserted(GoodOrcid, i, c) : i \in 0..Len(GoodOrcid), c \in OrcidChars}

PersonBodies ==
    {JObj(<<>>),
     JObj([name |-> JNull]),
     JObj([name |-> JObj("given-names" :> JObj([value |-> JStr(<<"A">>)])
                         @@ "family-name" :> JNull)]),
     JObj([name |-> JObj("given-names" :> JObj([value |-> JStr(<<"A">>)])
                         @@ "family-name" :> JObj([value |-> JStr(<<"L">>)])),
           keywords |-> JObj([keyword |-> JList(<<[content |-> JStr(<<"k">>)]>>)])])}

OrcidNext ==
    \/ \E e \in RegexEngines, o \in OrcidInputs : orcid_person(e, o)
    \/ \E o \in Outcomes(PersonBodies) : person_returns(o)

----------------------------------------------------------------------------
(* Mock publications: researchgate_publications *)

\* ord(c)
Ord(c) ==
    CASE c = " " -> 32 [] c = "0" -> 48 [] c = "a" -> 97
      [] c = "d" -> 100 [] c = "e" -> 101 [] c = "m" -> 109 [] c = "o" -> 111

Whitespace == {" "}

\* str.strip(): leading and trailing whitespace removed
RECURSIVE LStrip(_)
LStrip(s) == IF s # <<>> /\ Head(s) \in Whitespace THEN LStrip(Tail(s)) ELSE s
RECURSIVE RStrip(_)
RStrip(s) == IF s # <<>> /\ s[Len(s)] \in Whitespace
             THEN RStrip(SubSeq(s, 1, Len(s) - 1)) ELSE s
Strip(s) == RStrip(LStrip(s))

Demo == <<"d", "e", "m", "o">>

\* a or b: a when it is neither None nor "", else b
Or(a, b) == IF a # None /\ a # Some(<<>>) THEN a ELSE b

\* seed = (body.orcid or body.profile_url or "demo").strip()
Seed(body) == Strip(Or(body.orcid, Or(body.profile_url, Some(Demo)))[1])

BasePublications ==
    <<[title |-> "Translational Oncology: Bridging Bench to Bedside",
       journal |-> "Nature Medicine", year |-> 2022, url |-> "https://www.nature.com/"],
      [title |-> "Real-world Evidence in Clinical Trials",
       journal |-> "The Lancet", year |-> 2021, url |-> "https://www.thelancet.com/"],
      [title |-> "Machine Learning for Precision Medicine",
       journal |-> "Science", year |-> 2020, url |-> "https://www.science.org/"]>>

\* sum(ord(c) for c in seed)
RECURSIVE SumOrd(_)
SumOrd(s) == IF s = <<>> THEN 0 ELSE Ord(Head(s)) + SumOrd(Tail(s))

\* modifier = sum(ord(c) for c in seed) % len(base)
Modifier(seed) == SumOrd(seed) % Len(BasePublications)

\* the list rotated right instead of left
Rotated_right(base, modifier) ==
    SubSeq(base, Len(base) - modifier + 1, Len(base))
    \o SubSeq(base, 1, Len(base) - modifier)

\* base[modifier:] + base[:modifier]
Rotated(base, modifier) ==
    SubSeq(base, modifier + 1, Len(base)) \o SubSeq(base, 1, modifier)

researchgate_publications(body) ==
    /\ Ready
    /\ NoStore
    /\ Finish([handler |-> "researchgate_publications", body |-> body],
              [status |-> 200,
               items |-> Rotated(BasePublications, Modifier(Seed(body)))])

SeedChars == {"a", "0", " "}
Identifiers == {None} \cup {Some(s) : s \in SeqsUpTo(SeedChars, MaxSeedLen)}
MockBodies == [orcid : Identifiers, profile_url : Identifiers]

MockNext == \E b \in MockBodies : researchgate_publications(b)

Init ==
    /\ db = [c \in Collections |-> <<>>]
    /\ next_id = 1
    /\ pc = "ready"
    /\ req = [handler |-> "none"]
    /\ calls = <<>>
    /\ id_list = <<>>
    /\ resp = [status |-> 0]

\* the aggregation endpoints over every kind of upstream outcome, with one or
\* two bodies each
FewEsearchBodies == {JObj(<<>>), JObj([esearchresult |-> JObj([idlist |-> JList(<<"11">>)])])}
FewEsummaryBodies == {JObj([result |-> JObj([k \in {"11"} |-> Summary(JStr(<<"2", "0", "2", "2">>))])])}
FewStudyFieldsBodies ==
    {JObj([StudyFieldsResponse |-> JObj([StudyFields |-> JList(l)])]) :
        l \in {<<a>> : a \in PairedStudies}}
FewPersonBodies == {JObj(<<>>)}

OtherNext ==
    \/ \E q \in {"cancer"}, m \in {20} : pubmed_search(q, m)
    \/ \E o \in Outcomes(FewEsearchBodies) : esearch_returns(o)
    \/ \E o \in Outcomes(FewEsummaryBodies) : esummary_returns(o)
    \/ \E e \in {"cancer"}, lo \in {1}, hi \in {20} : clinical_trials_search(e, lo, hi)
    \/ \E o \in Outcomes(FewStudyFieldsBodies) : study_fields_returns(o)
    \/ \E e \in RegexEngines, o \in {GoodOrcid, <<>>} : orcid_person(e, o)
    \/ \E o \in Outcomes(FewPersonBodies) : person_returns(o)
    \/ \E b \in [orcid : {None, Some(<<"a">>)}, profile_url : {None}] :
          researchgate_publications(b)

\* every endpoint of the service
Next == StoreNext \/ OtherNext

Spec == Init /\ [][Next]_vars

\* each aggregation endpoint alone, over the full range of its inputs
SpecPubmed == Init /\ [][PubmedNext]_vars
SpecTrials == Init /\ [][TrialsNext]_vars
SpecOrcid == Init /\ [][OrcidNext]_vars
SpecMock == Init /\ [][MockNext]_vars

----------------------------------------------------------------------------
(* Properties *)

Finished(handler) == pc = "ready" /\ req.handler = handler

\* the step handles a request of this handler from start to end
Handles(handler) == pc = "ready" /\ pc' = "ready" /\ req'.handler = handler

IsPrefix(a, b) == Len(a) <= Len(b) /\ SubSeq(b, 1, Len(a)) = a

\* C1: a create-question request whose author_role is not "patient" and a
\* create-reply request whose author_role is not "researcher" end with 403
\* and leave every collection as it was; the forumquestion collection changes
\* only in a create-question request of a patient, the forumreply collection
\* only in a create-reply request of a researcher.
C1_ForumWriteGate ==
    [][/\ (Handles("create_forum_question") /\ req'.payload.author_role # "patient")
            => (resp'.status = 403 /\ db' = db)
       /\ (Handles("create_forum_reply") /\ req'.payload.author_role # "researcher")
            => (resp'.status = 403 /\ db' = db)
       /\ db'["forumquestion"] # db["forumquestion"]
            => (Handles("create_forum_question") /\ req'.payload.author_role = "patient"
                /\ resp'.status = 200)
       /\ db'["forumreply"] # db["forumreply"]
            => (Handles("create_forum_reply") /\ req'.payload.author_role = "researcher"
                /\ resp'.status = 200)]_vars

\* a researcher's question was turned away while the store held documents
C1_Witness ==
    /\ Finished("create_forum_question")
    /\ req.payload.author_role = "researcher"
    /\ resp.status = 403
    /\ TotalDocs > 0

WriteHandlers ==
    {"create_patient_profile", "create_researcher_profile", "create_forum_question",
     "create_forum_reply", "add_favorite"}

CollectionOf(handler) ==
    CASE handler = "create_patient_profile" -> "patient"
      [] handler = "create_researcher_profile" -> "researcher"
      [] handler = "create_forum_question" -> "forumquestion"
      [] handler = "create_forum_reply" -> "forumreply"
      [] handler = "add_favorite" -> "favorite"

StoredIds == UNION {{db[c][i]._id : i \in 1..Len(db[c])} : c \in Collections}

\* C9: an accepted write appends exactly one document, holding the request's
\* payload under a fresh identifier, to the collection of its own kind and
\* returns that identifier; every other step leaves every collection as it
\* was; no step changes or removes a stored document.
C9_InsertOnly ==
    [][/\ \A c \in Collections : IsPrefix(db[c], db'[c])
       /\ IF Handles(req'.handler) /\ req'.handler \in WriteHandlers /\ resp'.status = 200
          THEN LET c == CollectionOf(req'.handler)
               IN /\ Len(db'[c]) = Len(db[c]) + 1
                  /\ \A o \in Collections \ {c} : db'[o] = db[o]
                  /\ db'[c][Len(db'[c])].data = req'.payload
                  /\ db'[c][Len(db'[c])]._id \notin StoredIds
                  /\ resp'.id = StrOfId(db'[c][Len(db'[c])]._id)
          ELSE db' = db]_vars

\* a favorite was stored and then listed, beside a document of another kind
C9_Witness ==
    /\ Finished("list_favorites")
    /\ Len(db["favorite"]) = 1
    /\ Len(db["researcher"]) = 1
    /\ Len(resp.items) = 1

\* the outbound call came back without an exception
Succeeded(call) == call.outcome.kind = "http" /\ call.outcome.status < 400

\* C3: the summary call is issued only as the second call of a request, after
\* a search call that succeeded with a non-empty ID list; a request whose
\* search call succeeded with zero IDs ends with an empty item list and
\* without a summary call.
C3_TwoPhase ==
    /\ \A i \in 1..Len(calls) :
          calls[i].endpoint = "esummary.fcgi"
            => /\ i = 2
               /\ calls[1].endpoint = "esearch.fcgi"
               /\ Succeeded(calls[1])
               /\ Len(IdListOf(calls[1].outcome.body)) > 0
               /\ calls[2].params.id = IdListOf(calls[1].outcome.body)
    /\ (/\ req.handler = "pubmed_search"
        /\ Len(calls) >= 1
        /\ Succeeded(calls[1])
        /\ Len(IdListOf(calls[1].outcome.body)) = 0)
          => (pc = "ready" /\ Len(calls) = 1 /\ resp = [status |-> 200, items |-> <<>>])

\* a search that found nothing ended the request after one call
C3_Witness ==
    /\ Finished("pubmed_search")
    /\ Len(calls) = 1
    /\ Succeeded(calls[1])
    /\ "esearchresult" \in DOMAIN calls[1].outcome.body.o
    /\ IdListOf(calls[1].outcome.body) = <<>>
    /\ resp = [status |-> 200, items |-> <<>>]

\* a PubMed request that came through both phases
PubmedDone == Finished("pubmed_search") /\ Len(calls) = 2 /\ Succeeded(calls[2])

SummaryMap == ResultOf(calls[2].outcome.body)

ItemIds == [i \in 1..Len(resp.items) |-> resp.items[i].id]

HasKey(pid) == pid \in DOMAIN SummaryMap

HasSummary(pid) ==
    /\ pid \in DOMAIN SummaryMap
    /\ SummaryMap[pid].t = "obj"
    /\ DOMAIN SummaryMap[pid].o # {}

\* C4, as amended: the publications are one per phase-1 ID whose value in the
\* summary map is a non-empty object, in phase-1 order; an ID that is not a
\* key, or whose value is null or an empty object, is skipped without error.
C4_OutputOrder ==
    PubmedDone => /\ resp.status = 200
                  /\ ItemIds = SelectSeq(id_list, HasSummary)

\* C4, as claimed: the publications are one per phase-1 ID that is a key of
\* the summary map, in phase-1 order, and no ID that is a key is dropped.
C4_AsClaimed ==
    PubmedDone => /\ resp.status = 200
                  /\ ItemIds = SelectSeq(id_list, HasKey)

\* of two IDs, the first is a key with an empty summary and only the second
\* is returned
C4_Witness ==
    /\ PubmedDone
    /\ id_list = <<"11", "22">>
    /\ DOMAIN SummaryMap = {"11", "22"}
    /\ SummaryMap["11"] = JObj(<<>>)
    /\ ItemIds = <<"22">>

\* the pubdate starts with four decimal digits
FourDigitPrefix(p) ==
    /\ p.t = "str"
    /\ Len(p.s) >= 4
    /\ \A i \in 1..4 : p.s[i] \in DecimalChars

PrefixValue(p) ==
    1000 * DigitVal(p.s[1]) + 100 * DigitVal(p.s[2]) + 10 * DigitVal(p.s[3])
    + DigitVal(p.s[4])

PubdateOf(pid) == Get(SummaryMap[pid].o, "pubdate", JNull)

\* C5: the request does not fail over a pubdate, and a publication's year is
\* the value of the first four characters of its pubdate when these are four
\* decimal digits and is absent for every other pubdate.
C5_YearInvariant ==
    PubmedDone =>
        /\ resp.status = 200
        /\ \A i \in 1..Len(resp.items) :
              LET p == PubdateOf(resp.items[i].id)
              IN resp.items[i].year = IF FourDigitPrefix(p) THEN Some(PrefixValue(p))
                                      ELSE None

\* a trials request whose call came back without an exception
TrialsAnswered == Finished("clinical_trials_search") /\ Succeeded(calls[1])

Studies == StudiesOf(calls[1].outcome.body)

NonEmpty(x) == x # None /\ x # Some("")

\* the non-empty parts of a city and a country, joined by ", "
Joined(city, country) ==
    CASE NonEmpty(city) /\ NonEmpty(country) -> city[1] \o ", " \o country[1]
      [] NonEmpty(city) /\ ~NonEmpty(country) -> city[1]
      [] ~NonEmpty(city) /\ NonEmpty(country) -> country[1]
      [] OTHER -> ""

\* C6: a returned trial has one location per country, in upstream order, the
\* i-th being the non-empty parts of the i-th city (absent past the end of
\* the city list) and the i-th country joined by ", "; with no country the
\* locations are the raw country list.
C6_Locations ==
    (TrialsAnswered /\ resp.status = 200) =>
        /\ Len(resp.items) = Len(Studies)
        /\ \A n \in 1..Len(resp.items) :
              LET C == Get(Studies[n], "LocationCity", <<>>)
                  K == Get(Studies[n], "LocationCountry", <<>>)
                  L == resp.items[n].locations
              IN /\ Len(L) = Len(K)
                 /\ \A i \in 1..Len(K) :
                       L[i] = Joined(IF i <= Len(C) THEN Some(C[i]) ELSE None, Some(K[i]))
                 /\ (Len(K) = 0 => L = K)

\* cities ["Boston"] and countries ["US", "UK"] gave ["Boston, US", "UK"]
C6_Witness ==
    /\ TrialsAnswered
    /\ resp.status = 200
    /\ Len(Studies) = 1
    /\ Get(Studies[1], "LocationCity", <<>>) = <<"Boston">>
    /\ Get(Studies[1], "LocationCountry", <<>>) = <<"US", "UK">>
    /\ resp.items[1].locations = <<"Boston, US", "UK">>

\* the first element of a study's field, absent when the field is missing or
\* its list is empty
FirstOrAbsent(s, field) ==
    IF field \in DOMAIN s /\ Len(s[field]) > 0 THEN Some(s[field][1]) ELSE None

\* C10: a trials request does not fail over an empty field list; each of
\* NCTId, BriefTitle and OverallStatus is unwrapped to its first element, an
\* empty list reading as absent; url is absent exactly when nct_id is.
C10_Unwrap ==
    TrialsAnswered =>
        /\ resp.status = 200
        /\ Len(resp.items) = Len(Studies)
        /\ \A n \in 1..Len(resp.items) :
              /\ resp.items[n].nct_id = FirstOrAbsent(Studies[n], "NCTId")
              /\ "BriefTitle" \in DOMAIN Studies[n]
                    => resp.items[n].title = FirstOrAbsent(Studies[n], "BriefTitle")
              /\ resp.items[n].status = FirstOrAbsent(Studies[n], "OverallStatus")
              /\ (resp.items[n].url = None) = (resp.items[n].nct_id = None)

\* four hyphen-separated groups of four digits, the last character a digit or X
StrictOrcid(s) ==
    /\ Len(s) = 19
    /\ \A i \in {5, 10, 15} : s[i] = "-"
    /\ \A i \in (1..18) \ {5, 10, 15} : s[i] \in DecimalChars
    /\ s[19] \in DecimalChars \cup {"X"}

\* C2: a call to ORCID is issued only for an identifier of the strict format;
\* every other identifier ends with a validation error and without a call.
C2_StrictFormat ==
    req.handler = "orcid_person" =>
        /\ Len(calls) > 0 => StrictOrcid(req.orcid)
        /\ ~StrictOrcid(req.orcid) => (pc = "ready" /\ calls = <<>> /\ resp.status = 422)

\* the identifier the request names: orcid, else profile_url, else "demo"
Provided(body) ==
    IF body.orcid # None /\ Len(body.orcid[1]) > 0 THEN body.orcid[1]
    ELSE IF body.profile_url # None /\ Len(body.profile_url[1]) > 0 THEN body.profile_url[1]
    ELSE Demo

\* s without its leading and trailing whitespace
Trimmed(s) ==
    LET inked == {i \in 1..Len(s) : s[i] \notin Whitespace}
    IN IF inked = {} THEN <<>>
       ELSE SubSeq(s, CHOOSE i \in inked : \A j \in inked : i <= j,
                      CHOOSE i \in inked : \A j \in inked : i >= j)

\* the base list rotated left by the code-point sum of seed, modulo its length
RotatedBy(seed) ==
    [i \in 1..Len(BasePublications) |->
        BasePublications[((i - 1 + SumOrd(seed)) % Len(BasePublications)) + 1]]

\* C7, as amended: the seed is the provided identifier (or the default) with
\* leading and trailing whitespace removed, and the returned list is the base
\* list rotated left by the seed's code-point sum modulo the list length.
C7_Rotation ==
    Finished("researchgate_publications") =>
        /\ resp.status = 200
        /\ resp.items = RotatedBy(Trimmed(Provided(req.body)))

\* C7, as claimed: the seed is the provided identifier (or the default) as
\* given.
C7_AsClaimed ==
    Finished("researchgate_publications") =>
        /\ resp.status = 200
        /\ resp.items = RotatedBy(Provided(req.body))

\* an identifier with a leading blank rotated the list by the sum of its
\* other character
C7_Witness ==
    /\ Finished("researchgate_publications")
    /\ req.body.orcid = Some(<<" ", "a">>)
    /\ resp.items[1] = BasePublications[2]
    /\ resp.items[3] = BasePublications[1]

UpstreamOf(handler) ==
    CASE handler = "pubmed_search" -> "PubMed"
      [] handler = "clinical_trials_search" -> "ClinicalTrials.gov"
      [] handler = "orcid_person" -> "ORCID"

\* what the request ends with once call i has failed
EndsWithUpstreamError(i) ==
    /\ pc = "ready"
    /\ i = Len(calls)
    /\ resp.status = 502
    /\ resp.detail.upstream = UpstreamOf(req.handler)
    /\ "items" \notin DOMAIN resp

\* C8, as amended: a network failure, a timeout or a 4xx or 5xx response of
\* any outbound call ends the request with 502 naming the upstream, with no
\* items and with no call after the failed one.
C8_UpstreamFailure ==
    \A i \in 1..Len(calls) :
        (\/ calls[i].outcome.kind = "error"
         \/ calls[i].outcome.kind = "http" /\ calls[i].outcome.status \in 400..599)
          => EndsWithUpstreamError(i)

\* C8, as claimed: so does every response that is not 2xx.
C8_AsClaimed ==
    \A i \in 1..Len(calls) :
        (\/ calls[i].outcome.kind = "error"
         \/ calls[i].outcome.kind = "http" /\ calls[i].outcome.status \notin 200..299)
          => EndsWithUpstreamError(i)

\* the summary call of a PubMed request timed out after a good search
C8_Witness ==
    /\ Finished("pubmed_search")
    /\ Len(calls) = 2
    /\ calls[2].outcome = [kind |-> "error", exc |-> "Timeout"]
    /\ resp.status = 502
    /\ resp.detail.upstream = "PubMed"

====
